---- MODULE Spec2Model ----
(***************************************************************************)
(* A model of egutils: the elastic-git model-form adapter (egutils/forms.py)*)
(* and the schema utilities (egutils/utils.py).                             *)
(*                                                                         *)
(* Python values are encoded as follows.                                    *)
(*   - An optional list (Meta.fields, Meta.exclude, a commit message) is a  *)
(*     record [kind, names]: kind "None" is Python's None, kind "all" the   *)
(*     ALL_FIELDS sentinel '__all__', kind "list" a list (or a string, for  *)
(*     a message: the sequence of its words).                               *)
(*   - An OrderedDict is a sequence of [name, field] records with pairwise  *)
(*     distinct names.                                                      *)
(*   - A file name is the sequence of its characters.                       *)
(***************************************************************************)
EXTENDS Integers, Sequences, FiniteSets, TLC

VARIABLES
    klass,      \* the outcome of the last class definition (ModelFormMetaclass.__new__)
    ffm,        \* the last direct call of fields_for_model and its result
    form,       \* the form object (BaseEGModelForm), or NoForm
    ws,         \* the workspace: the number of save calls it has received
    last,       \* the last form operation: its arguments, its outcome, the state before it
    files,      \* the names of the files in <working_dir>/_schemas
    lookup      \* the last schema utility call and its result

vars == <<klass, ffm, form, ws, last, files, lookup>>

(***************************** bounds **************************************)
MaxFieldsLen == 2     \* longest Meta.fields list of a class definition
MaxSaves == 2         \* most calls of workspace.save in one behaviour

(***************************** helpers *************************************)
Range(s) == {s[i] : i \in 1..Len(s)}

SeqsUpTo(S, n) == UNION {[1..k -> S] : k \in 0..n}

NoneOpt == [kind |-> "None", names |-> <<>>]
AllOpt == [kind |-> "all", names |-> <<>>]
ListOpt(s) == [kind |-> "list", names |-> s]

\* Python truth value of an optional list: None and the empty list are false.
Truthy(opt) == opt.kind = "all" \/ (opt.kind = "list" /\ Len(opt.names) > 0)

\* `name in opt` for a list.
In(name, opt) == name \in Range(opt.names)

(***************************** the document model **************************)
\* model._get_fields(): the field descriptors of the target model, in the
\* model's field order.  Every elastic-git model carries _version and uuid.
ModelFields ==
    << [name |-> "_version", type |-> "DictField", required |-> FALSE],
       [name |-> "uuid", type |-> "UUIDField", required |-> FALSE],
       [name |-> "title", type |-> "TextField", required |-> TRUE],
       [name |-> "rank", type |-> "IntegerField", required |-> FALSE] >>

ModelFieldNames == {f.name : f \in Range(ModelFields)}

FIELD_MAPPING(type) ==
    CASE type = "UUIDField" -> "CharField"
      [] type = "TextField" -> "CharField"
      [] type = "UnicodeTextField" -> "CharField"
      [] type = "IntegerField" -> "IntegerField"
      [] type = "FloatField" -> "FloatField"
      [] type = "BooleanField" -> "BooleanField"
      [] type = "ListField" -> "CharField"
      [] type = "DictField" -> "CharField"
      [] type = "URLField" -> "URLField"

EXCLUDED_FIELDS == {"_version", "uuid", "id"}

\* A form field object, and Python's None where a form field is expected.
FormField(f) == [form_class |-> FIELD_MAPPING(f.type), required |-> f.required]
NoField == [form_class |-> "None", required |-> FALSE]
DeclaredField == [form_class |-> "declared", required |-> TRUE]

(***************************** OrderedDict *********************************)
Keys(od) == [i \in 1..Len(od) |-> od[i].name]

\* dict.get(name): the value stored under name, or None.
Get(od, name) ==
    IF \E i \in 1..Len(od) : od[i].name = name
    THEN od[CHOOSE i \in 1..Len(od) : od[i].name = name].field
    ELSE NoField

\* dict[name] = field: an existing key keeps its place, a new key is appended.
Put(od, name, field) ==
    IF \E i \in 1..Len(od) : od[i].name = name
    THEN [i \in 1..Len(od) |->
            IF od[i].name = name THEN [name |-> name, field |-> field] ELSE od[i]]
    ELSE Append(od, [name |-> name, field |-> field])

\* OrderedDict(pairs)
RECURSIVE OrderedDictFrom(_, _)
OrderedDictFrom(od, pairs) ==
    IF pairs = <<>> THEN od
    ELSE OrderedDictFrom(Put(od, Head(pairs).name, Head(pairs).field), Tail(pairs))

OrderedDict(pairs) == OrderedDictFrom(<<>>, pairs)

(***************************** fields_for_model ****************************)
\* The loop's three `continue` tests.
Skipped(f, fields, exclude) ==
    \/ f.name \in EXCLUDED_FIELDS
    \/ (fields.kind # "None" /\ ~In(f.name, fields))
    \/ (Truthy(exclude) /\ In(f.name, exclude))

\* The re-ordering keeps the names of `fields` that are not excluded.
Kept(name, exclude) ==
    ~Truthy(exclude) \/ (Truthy(exclude) /\ ~In(name, exclude))

\* A faulty variant: the re-ordering step is left out.
ReorderModelOrder(field_dict, fields, exclude) == field_dict

\* field_dict re-ordered "to match ordering in fields"
Reorder(field_dict, fields, exclude) ==
    LET kept == SelectSeq(fields.names, LAMBDA n : Kept(n, exclude))
    IN OrderedDict([i \in 1..Len(kept) |->
                       [name |-> kept[i], field |-> Get(field_dict, kept[i])]])

fields_for_model(fields, exclude) ==
    LET made == SelectSeq(ModelFields, LAMBDA f : ~Skipped(f, fields, exclude))
        field_list == [i \in 1..Len(made) |->
                          [name |-> made[i].name, field |-> FormField(made[i])]]
        field_dict == OrderedDict(field_list)
    IN IF Truthy(fields) THEN Reorder(field_dict, fields, exclude) ELSE field_dict

(***************************** ModelFormMetaclass.__new__ ******************)
\* fields.update(declared_fields)
RECURSIVE Update(_, _)
Update(od, declared) ==
    IF declared = <<>> THEN od
    ELSE Update(Put(od, Head(declared), DeclaredField), Tail(declared))

NoneModelFields(fields) ==
    {fields[i].name : i \in {j \in 1..Len(fields) : fields[j].field = NoField}}

MissingFields(fields, declared) == NoneModelFields(fields) \ Range(declared)

\* A faulty variant: the check for a missing 'fields' and 'exclude' is left out.
ProhibitedNever(meta) == FALSE

\* "without either the 'fields' attribute or the 'exclude' attribute"
Prohibited(meta) == meta.fields.kind = "None" /\ meta.exclude.kind = "None"

\* The result of defining a class: the class (with its _meta and base_fields),
\* or the exception raised.  `synthesized` records whether fields_for_model ran.
ClassResult(outcome, opts_fields, exclude, base_fields, missing, synthesized) ==
    [outcome |-> outcome, fields |-> opts_fields, exclude |-> exclude,
     base_fields |-> base_fields, missing |-> missing, synthesized |-> synthesized]

ModelFormMetaclassNew(bases, meta, declared) ==
    IF bases = "BaseEGModelForm"
    THEN ClassResult("class", NoneOpt, NoneOpt, <<>>, {}, FALSE)
    ELSE IF meta.model
    THEN IF Prohibited(meta)
         THEN ClassResult("ImproperlyConfigured", meta.fields, meta.exclude, <<>>, {}, FALSE)
         ELSE LET opts_fields == IF meta.fields.kind = "all" THEN NoneOpt ELSE meta.fields
                  fields == fields_for_model(opts_fields, meta.exclude)
                  missing == MissingFields(fields, declared)
              IN IF missing # {}
                 THEN ClassResult("FieldError", opts_fields, meta.exclude, <<>>, missing, TRUE)
                 ELSE ClassResult("class", opts_fields, meta.exclude,
                                  Update(fields, declared), {}, TRUE)
    ELSE ClassResult("class", meta.fields, meta.exclude,
                     Update(<<>>, declared), {}, FALSE)

(***************************** the model instance *************************)
ModelName == "Page"

\* An instance of a document model: its class name and its field values.
\* A uuid of "None" is an instance without an identifier.
Instance(cls, uuid) ==
    [n \in ModelFieldNames \cup {"__class__"} |->
        CASE n = "__class__" -> cls
          [] n = "uuid" -> uuid
          [] OTHER -> "old"]

NoInstance == [n \in {"__class__"} |-> "None"]

\* instance.update(data): a copy of the instance with the given values.
InstanceUpdate(instance, data) ==
    [n \in DOMAIN instance |-> IF n \in DOMAIN data THEN data[n] ELSE instance[n]]

(***************************** BaseEGModelForm *****************************)
NoForm == [exists |-> FALSE]

NoPostClean == [ran |-> FALSE]

\* __init__: the form of a class `cls` (a ClassResult), on `instance`, bound to
\* `data` when is_bound.  self._errors is None until full_clean has run.
NewFormObject(cls, instance, is_bound, data) ==
    [exists |-> TRUE,
     fields |-> Keys(cls.base_fields),
     meta_fields |-> cls.fields,
     meta_exclude |-> cls.exclude,
     instance |-> instance,
     is_bound |-> is_bound,
     data |-> data,
     validated |-> FALSE,
     errors |-> {},
     cleaned_data |-> << >>,
     post_clean |-> NoPostClean]

\* What one pass of the loop of _get_validation_exclusions appends for the
\* model field `name`.
ExclusionsFor(f, name) ==
    IF name \notin Range(f.fields) THEN <<name>>
    ELSE IF Truthy(f.meta_fields) /\ ~In(name, f.meta_fields) THEN <<name>>
    ELSE IF Truthy(f.meta_exclude) /\ In(name, f.meta_exclude) THEN <<name>>
    ELSE IF name \in f.errors THEN <<name>>
    ELSE <<>>

RECURSIVE ExclusionsFrom(_, _)
ExclusionsFrom(f, model_fields) ==
    IF model_fields = <<>> THEN <<>>
    ELSE ExclusionsFor(f, Head(model_fields).name) \o ExclusionsFrom(f, Tail(model_fields))

GetValidationExclusions(f) == ExclusionsFrom(f, ModelFields)

\* A faulty variant: the test against EXCLUDED_FIELDS is left out.
ConstructedWithReserved(instance_fields, fields, exclude) ==
    {n \in instance_fields :
        /\ ~(fields.kind # "None" /\ ~In(n, fields))
        /\ ~(Len(exclude) > 0 /\ n \in Range(exclude))}

\* construct_instance: the names whose values are copied ...
Constructed(instance_fields, fields, exclude) ==
    {n \in instance_fields :
        /\ n \notin EXCLUDED_FIELDS
        /\ ~(fields.kind # "None" /\ ~In(n, fields))
        /\ ~(Len(exclude) > 0 /\ n \in Range(exclude))}

\* ... and the dictionary handed to instance.update.  Reading a key that
\* cleaned_data does not hold is a KeyError.
ConstructData(f, fields, exclude) ==
    [n \in Constructed(ModelFieldNames, fields, exclude) |->
        IF n \in DOMAIN f.cleaned_data THEN f.cleaned_data[n] ELSE "KeyError"]

ConstructInstance(f, instance, fields, exclude) ==
    InstanceUpdate(instance, ConstructData(f, fields, exclude))

PostClean(f) ==
    LET exclude == GetValidationExclusions(f)
    IN [f EXCEPT !.instance = ConstructInstance(f, f.instance, f.meta_fields, exclude),
                 !.post_clean = [ran |-> TRUE, exclude |-> exclude,
                                 data |-> ConstructData(f, f.meta_fields, exclude)]]

\* BaseForm.full_clean, as far as this code takes part in it: it fills
\* self._errors and self.cleaned_data from the bound data, field by field, and
\* ends by calling self._post_clean().  An unbound form gets an empty error
\* list and nothing else.  A submitted value of "bad" is one the form field's
\* clean() rejects.
FullClean(f) ==
    IF ~f.is_bound
    THEN [f EXCEPT !.validated = TRUE, !.errors = {}]
    ELSE LET errors == {n \in Range(f.fields) : f.data[n] = "bad"}
             cleaned == [n \in Range(f.fields) \ errors |-> f.data[n]]
         IN PostClean([f EXCEPT !.validated = TRUE, !.errors = errors,
                                !.cleaned_data = cleaned])

\* The form after `self.errors` has been read: the property runs full_clean
\* when self._errors is still None.
AfterErrors(f) == IF f.validated THEN f ELSE FullClean(f)

Verb(instance) == IF instance["uuid"] # "None" THEN "updated" ELSE "created"

\* A faulty variant: the message says 'created' whether or not there is a uuid.
DefaultMessageAlwaysCreated(instance) == <<instance["__class__"], "created">>

\* '%s %s' % (self.instance.__class__.__name__, 'updated' or 'created')
DefaultMessage(instance) == <<instance["__class__"], Verb(instance)>>

\* message or '<ModelName> updated/created'
Message(message, instance) ==
    IF Truthy(message) THEN message.names ELSE DefaultMessage(instance)

\* A faulty variant: a form with errors is saved all the same.
ErrorsBlockNever(f) == FALSE

\* if self.errors:
ErrorsBlock(f) == f.errors # {}

\* A faulty variant: a missing workspace goes unnoticed.
WorkspaceMissingNever(workspace) == FALSE

\* if workspace is None:
WorkspaceMissing(workspace) == workspace = "None"

\* A faulty variant: the commit flag is ignored.
CommitsAlways(commit) == TRUE

\* if commit:
Commits(commit) == commit

\* save: the form afterwards, the outcome (the instance returned or the
\* ValueError raised) and the calls of workspace.save it made.
SaveResult(f, commit, workspace, message, author, committer) ==
    LET f1 == AfterErrors(f)
    IN IF ErrorsBlock(f1)
       THEN [form |-> f1, outcome |-> "ValueError",
             error |-> <<"The", f1.instance["__class__"], "could not be",
                         Verb(f1.instance), "because the data didn't validate.">>,
             returned |-> NoInstance, saved |-> <<>>]
       ELSE IF Commits(commit) /\ WorkspaceMissing(workspace)
       THEN [form |-> f1, outcome |-> "ValueError",
             error |-> <<"Workspace was not provided.">>,
             returned |-> NoInstance, saved |-> <<>>]
       ELSE [form |-> f1, outcome |-> "returned", error |-> <<>>,
             returned |-> f1.instance,
             saved |-> IF Commits(commit)
                       THEN << [instance |-> f1.instance,
                                message |-> Message(message, f1.instance),
                                author |-> author, committer |-> committer] >>
                       ELSE <<>>]

(***************************** schema utilities ***************************)
SEP == <<"/">>
EXT == <<".", "a", "v", "s", "c">>
WorkingDir == <<"/", "r">>
SchemasDir == <<"_", "s">>

\* os.path.join of two components
Join(a, b) == a \o SEP \o b

\* The index of the last occurrence of character c in p, or 0.
RFind(p, c) ==
    IF \E i \in 1..Len(p) : p[i] = c
    THEN CHOOSE i \in 1..Len(p) : p[i] = c /\ \A j \in (i+1)..Len(p) : p[j] # c
    ELSE 0

\* os.path.basename
Basename(p) == SubSeq(p, RFind(p, "/") + 1, Len(p))

EndsWith(p, suffix) ==
    Len(p) >= Len(suffix) /\ SubSeq(p, Len(p) - Len(suffix) + 1, Len(p)) = suffix

\* os.path.splitext: split at the last dot of the last component, unless that
\* component consists of leading dots only up to there.
Splitext(p) ==
    LET sep == RFind(p, "/")
        dot == RFind(p, ".")
    IN IF dot > sep /\ \E i \in (sep+1)..(dot-1) : p[i] # "."
       THEN <<SubSeq(p, 1, dot - 1), SubSeq(p, dot, Len(p))>>
       ELSE <<p, <<>>>>

\* A faulty variant: hidden files are listed too.
GlobMatchesHidden(name) == EndsWith(name, EXT)

\* glob's match of the pattern '*.avsc' against a directory entry: a name
\* that starts with a dot is hidden from a pattern that does not.
GlobMatches(name) == EndsWith(name, EXT) /\ name[1] # "."

\* glob.glob(os.path.join(repo.working_dir, '_schemas', '*.avsc'))
Glob(tree) == {Join(Join(WorkingDir, SchemasDir), n) : n \in {m \in tree : GlobMatches(m)}}

ListContentTypes(tree) == {Splitext(Basename(path))[1] : path \in Glob(tree)}

\* os.path.join(repo.working_dir, '_schemas', '%s.avsc' % (content_type,))
SchemaPath(content_type) == Join(Join(WorkingDir, SchemasDir), content_type \o EXT)

\* open(path, 'r') succeeds on a file of the tree
Opens(tree, path) == \E n \in tree : Join(Join(WorkingDir, SchemasDir), n) = path

\* get_schema: the schema avro parses from the file (or avro's own error when
\* the content is no schema), or the ValueError of a file that cannot be opened.
GetSchema(tree, content_type, parses) ==
    IF Opens(tree, SchemaPath(content_type))
    THEN IF parses THEN "schema" ELSE "SchemaParseException"
    ELSE "ValueError: Schema does not exist"

(***************************** inputs **************************************)
\* Names a Meta option or a declared field may use: model fields, a reserved
\* name and a name the model does not have.
OptionNames == {"uuid", "title", "rank", "extra"}

FieldsOptions == {NoneOpt, AllOpt} \cup {ListOpt(s) : s \in SeqsUpTo(OptionNames, MaxFieldsLen)}

ExcludeOptions ==
    {NoneOpt} \cup {ListOpt(s) : s \in {<<>>, <<"title">>, <<"rank">>, <<"extra">>,
                                        <<"uuid">>, <<"title", "rank">>, <<"title", "extra">>}}

DeclaredOptions == {<<>>, <<"title">>, <<"extra">>, <<"extra", "title">>, <<"uuid">>}

Metas == [model : BOOLEAN, fields : FieldsOptions, exclude : ExcludeOptions]

\* The narrower options of the classes that forms are made of.
FormFieldsOptions ==
    {NoneOpt, ListOpt(<<>>), ListOpt(<<"title">>), ListOpt(<<"rank", "title">>)}

FormExcludeOptions == {NoneOpt, ListOpt(<<>>), ListOpt(<<"title">>)}

FormDeclaredOptions == {<<>>, <<"title">>, <<"extra">>, <<"uuid">>}

FormMetas == [model : BOOLEAN, fields : FormFieldsOptions, exclude : FormExcludeOptions]

InstanceOptions == {NoInstance, Instance("Page", "None"), Instance("Post", "u1")}

MessageOptions == {NoneOpt, ListOpt(<<>>), ListOpt(<<"fix", "typo">>)}

\* (author, committer)
Authorships == {<<"None", "None">>, <<"alice", "bob">>}

Workspaces == {"None", "workspace"}

AVSC(stem) == stem \o EXT

FileNames ==
    { AVSC(<<"a">>), AVSC(<<"a", ".", "b">>), AVSC(AVSC(<<"a">>)), AVSC(<<>>),
      AVSC(<<".">>), AVSC(<<".", "a">>), <<"a", ".", "t">>, <<"a", "v", "s", "c">>,
      <<"a">> }

ContentTypes == {Splitext(n)[1] : n \in FileNames} \cup {<<"b">>, <<>>}

(***************************** state ***************************************)
NoClass == [outcome |-> "none"]
NoCall == [op |-> "none"]

\* No listing and no lookup made on the working tree as it is now.
NoLookup == [listed |-> {}, fresh |-> FALSE, get |-> NoCall]

Init ==
    /\ klass = [bases |-> "none", result |-> NoClass]
    /\ ffm = NoCall
    /\ form = NoForm
    /\ ws = [calls |-> 0]
    /\ last = NoCall
    /\ files = {}
    /\ lookup = NoLookup

(***************************** class definition ****************************)
\* class <name>(<bases>): with inner class Meta and the declared form fields
Define(bases, meta, declared) ==
    /\ klass' = [bases |-> bases, meta |-> meta, declared |-> declared,
                 result |-> ModelFormMetaclassNew(bases, meta, declared)]
    /\ UNCHANGED <<ffm, form, ws, last, files, lookup>>

DefineClass ==
    /\ klass.result = NoClass
    /\ ffm = NoCall
    /\ \E bases \in {"BaseEGModelForm", "EGModelForm"}, meta \in Metas,
       declared \in DeclaredOptions :
        Define(bases, meta, declared)

CallFieldsForModel ==
    /\ klass.result = NoClass
    /\ ffm = NoCall
    /\ \E fields \in FieldsOptions \ {AllOpt}, exclude \in ExcludeOptions :
        /\ ffm' = [op |-> "fields_for_model", fields |-> fields, exclude |-> exclude,
                   result |-> fields_for_model(fields, exclude)]
        /\ UNCHANGED <<klass, form, ws, last, files, lookup>>

MetaNext == DefineClass \/ CallFieldsForModel

SpecMeta == Init /\ [][MetaNext]_vars

(***************************** forms ***************************************)
DefineFormClass ==
    /\ form = NoForm
    /\ klass.result = NoClass
    /\ \E meta \in FormMetas, declared \in FormDeclaredOptions :
        Define("EGModelForm", meta, declared)

\* Form(data, instance=instance), or Form(instance=instance) for an unbound form
NewForm ==
    /\ form = NoForm
    /\ last = NoCall
    /\ klass.result.outcome = "class"
    /\ IF ~klass.meta.model
       THEN /\ last' = [op |-> "init", outcome |-> "ValueError"]
            /\ UNCHANGED form
       ELSE \E given \in InstanceOptions, is_bound \in BOOLEAN :
            \E data \in [Range(Keys(klass.result.base_fields)) -> {"new", "bad"}] :
                /\ is_bound \/ \A n \in DOMAIN data : data[n] = "new"
                /\ form' = NewFormObject(klass.result,
                                         IF given = NoInstance
                                         THEN Instance(ModelName, "None") ELSE given,
                                         is_bound, data)
                /\ last' = [op |-> "init", outcome |-> "form"]
    /\ UNCHANGED <<klass, ffm, ws, files, lookup>>

\* form.is_valid() or form.errors: validation runs once
Validate ==
    /\ form # NoForm
    /\ ~form.validated
    /\ form' = FullClean(form)
    /\ last' = [op |-> "full_clean", before |-> form]
    /\ UNCHANGED <<klass, ffm, ws, files, lookup>>

Save ==
    /\ form # NoForm
    /\ ws.calls < MaxSaves
    /\ \E commit \in BOOLEAN, workspace \in Workspaces, message \in MessageOptions,
          by \in Authorships :
        LET r == SaveResult(form, commit, workspace, message, by[1], by[2])
        IN /\ form' = r.form
           /\ ws' = [calls |-> ws.calls + Len(r.saved)]
           /\ last' = [op |-> "save", commit |-> commit, workspace |-> workspace,
                       message |-> message, author |-> by[1], committer |-> by[2],
                       before |-> form, calls_before |-> ws.calls,
                       outcome |-> r.outcome, error |-> r.error,
                       returned |-> r.returned, saved |-> r.saved]
    /\ UNCHANGED <<klass, ffm, files, lookup>>

Next == DefineFormClass \/ NewForm \/ Validate \/ Save

Spec == Init /\ [][Next]_vars

(***************************** schemas *************************************)
\* The working tree changes: a file appears in _schemas or disappears.
AddFile ==
    \E n \in FileNames \ files :
        /\ files' = files \cup {n}
        /\ lookup' = NoLookup
        /\ UNCHANGED <<klass, ffm, form, ws, last>>

RemoveFile ==
    \E n \in files :
        /\ files' = files \ {n}
        /\ lookup' = NoLookup
        /\ UNCHANGED <<klass, ffm, form, ws, last>>

CallListContentTypes ==
    /\ lookup' = [lookup EXCEPT !.listed = ListContentTypes(files), !.fresh = TRUE]
    /\ UNCHANGED <<klass, ffm, form, ws, last, files>>

CallGetSchema ==
    \E content_type \in ContentTypes, parses \in BOOLEAN :
        /\ lookup' = [lookup EXCEPT !.get =
                         [op |-> "get_schema", content_type |-> content_type,
                          result |-> GetSchema(files, content_type, parses)]]
        /\ UNCHANGED <<klass, ffm, form, ws, last, files>>

SchemaNext == AddFile \/ RemoveFile \/ CallListContentTypes \/ CallGetSchema

SpecSchema == Init /\ [][SchemaNext]_vars

(***************************** claims: save ********************************)
\* The form carries validation errors: it is bound and a submitted value is
\* one its field rejects.
CarriesErrors(f) == f.is_bound /\ \E n \in Range(f.fields) : f.data[n] = "bad"

Saved == last.op = "save"

\* C1: a save call on a form that carries validation errors fails with a
\* value error and calls workspace.save not once, whatever its arguments are.
C1_ErrorsRejectSave ==
    (Saved /\ CarriesErrors(last.before)) =>
        /\ last.outcome = "ValueError"
        /\ last.saved = <<>>
        /\ ws.calls = last.calls_before
        /\ ws.calls = 0

C1_Witness ==
    /\ Saved /\ CarriesErrors(last.before)
    /\ last.commit /\ last.workspace # "None"
    /\ last.message = ListOpt(<<"fix", "typo">>) /\ last.author = "alice"
    /\ last.outcome = "ValueError"

\* C2 as stated: save with commit requested and no workspace, on a form
\* without validation errors, fails with a value error and leaves the form's
\* instance as it was before the call.
C2_Original ==
    (Saved /\ ~CarriesErrors(last.before) /\ last.commit /\ last.workspace = "None") =>
        /\ last.outcome = "ValueError"
        /\ form.instance = last.before.instance

\* C2 amended: save with commit requested and no workspace, on a form without
\* validation errors, fails with a value error and calls workspace.save not
\* once.  It leaves the instance as it was if the form had been validated
\* before the call or is unbound; on a bound form not validated yet, reading
\* self.errors validates it first, and the instance is the one _post_clean
\* constructed from the cleaned data.
C2_NoWorkspace ==
    (Saved /\ ~CarriesErrors(last.before) /\ last.commit /\ last.workspace = "None") =>
        /\ last.outcome = "ValueError"
        /\ last.error = <<"Workspace was not provided.">>
        /\ last.saved = <<>> /\ ws.calls = last.calls_before
        /\ (last.before.validated \/ ~last.before.is_bound) =>
                form.instance = last.before.instance
        /\ (~last.before.validated /\ last.before.is_bound) =>
                /\ form.post_clean.ran
                /\ form.instance =
                      InstanceUpdate(last.before.instance, form.post_clean.data)

C2_Witness ==
    /\ Saved /\ ~CarriesErrors(last.before) /\ last.commit /\ last.workspace = "None"
    /\ last.outcome = "ValueError"
    /\ ~last.before.validated /\ last.before.is_bound
    /\ last.before.instance["title"] = "old" /\ form.instance["title"] = "new"

\* C3: on a form without validation errors, save calls workspace.save exactly
\* once, with the form's instance, the author and the committer, if and only
\* if commit is requested and a workspace is supplied; with commit not
\* requested it calls no workspace.save and needs no workspace; in both
\* successful cases it returns the form's instance.
C3_SaveDelegates ==
    (Saved /\ ~CarriesErrors(last.before)) =>
        /\ (last.commit /\ last.workspace # "None") =>
              /\ Len(last.saved) = 1
              /\ last.saved[1].instance = form.instance
              /\ last.saved[1].author = last.author
              /\ last.saved[1].committer = last.committer
              /\ last.saved[1].message # <<>>
              /\ last.outcome = "returned"
        /\ ~(last.commit /\ last.workspace # "None") => last.saved = <<>>
        /\ ~last.commit => last.outcome = "returned"
        /\ last.outcome = "returned" => last.returned = form.instance
        /\ ws.calls = last.calls_before + Len(last.saved)

C3_Witness ==
    /\ Saved /\ ~CarriesErrors(last.before)
    /\ last.commit /\ last.workspace # "None"
    /\ last.author = "alice" /\ last.committer = "bob"
    /\ last.calls_before = 1 /\ ws.calls = 2
    /\ last.before.is_bound

\* C4: when save commits, the message handed to the workspace is the
\* caller's message when one (a non-empty one) is given; otherwise it is
\* "<ModelName> updated" when the instance has a uuid and "<ModelName>
\* created" when it has none, ModelName being the instance's class name.
C4_CommitMessage ==
    (Saved /\ last.saved # <<>>) =>
        last.saved[1].message =
            IF last.message.kind = "list" /\ last.message.names # <<>>
            THEN last.message.names
            ELSE IF form.instance["uuid"] # "None"
                 THEN <<form.instance["__class__"], "updated">>
                 ELSE <<form.instance["__class__"], "created">>

C4_Witness ==
    /\ Saved /\ last.saved # <<>>
    /\ last.message = NoneOpt
    /\ last.saved[1].message = <<"Post", "updated">>

(***************************** claims: validation **************************)
\* _post_clean has run on the form.
PostCleaned == form # NoForm /\ form.post_clean.ran

Distinct(s) == \A i, j \in 1..Len(s) : s[i] = s[j] => i = j

\* C7 as stated: _get_validation_exclusions returns a model field as excluded
\* if and only if it is not on the form, not in the inclusion list Meta.fields
\* (when Meta gives one), in the exclusion list Meta.exclude, or failed form
\* validation; and it returns no name twice.
C7_Original ==
    PostCleaned =>
        /\ \A n \in ModelFieldNames :
              n \in Range(form.post_clean.exclude) <=>
                  \/ n \notin Range(form.fields)
                  \/ (form.meta_fields.kind = "list" /\ n \notin Range(form.meta_fields.names))
                  \/ (form.meta_exclude.kind = "list" /\ n \in Range(form.meta_exclude.names))
                  \/ n \in form.errors
        /\ Distinct(form.post_clean.exclude)

\* C9: construct_instance, called from _post_clean, hands instance.update
\* exactly the model fields that are not reserved, are in Meta.fields when
\* Meta gives a list, and are not in the validation exclusions, each with its
\* cleaned value; so it reads no value of a field that is not on the form or
\* failed validation, and writes no reserved field of the instance.
C9_ConstructInstance ==
    PostCleaned =>
        /\ DOMAIN form.post_clean.data =
              {n \in ModelFieldNames :
                  /\ n \notin {"_version", "uuid", "id"}
                  /\ form.meta_fields.kind = "list" => n \in Range(form.meta_fields.names)
                  /\ n \notin Range(form.post_clean.exclude)}
        /\ \A n \in DOMAIN form.post_clean.data :
              /\ n \in Range(form.fields) /\ n \notin form.errors
              /\ n \in DOMAIN form.cleaned_data
              /\ form.post_clean.data[n] = form.cleaned_data[n]
              /\ form.post_clean.data[n] = form.data[n]
        /\ (last.op \in {"full_clean", "save"} /\ ~last.before.validated) =>
              /\ \A n \in {"_version", "uuid"} :
                    form.instance[n] = last.before.instance[n]
              /\ \A n \in DOMAIN form.post_clean.data :
                    form.instance[n] = form.cleaned_data[n]

C9_Witness ==
    /\ PostCleaned
    /\ last.op = "full_clean"
    /\ "uuid" \in Range(form.fields) /\ form.data["uuid"] = "new"
    /\ "title" \in form.errors
    /\ DOMAIN form.post_clean.data = {"rank"}
    /\ form.instance["uuid"] = "u1" /\ form.instance["rank"] = "new"

(***************************** claims: class definition ********************)
Defined == klass.result # NoClass

\* A form class: a class made from EGModelForm.  (The metaclass returns the
\* direct child of BaseEGModelForm, which is EGModelForm itself, untouched.)
FormClass == Defined /\ klass.bases = "EGModelForm"

\* C5: defining a form class whose Meta names a model and gives neither
\* 'fields' nor 'exclude' fails with ImproperlyConfigured before any form
\* field is synthesized; giving either option, an empty exclude list and the
\* all-fields sentinel included, does not raise that error.
C5_FieldsOrExclude ==
    (FormClass /\ klass.meta.model) =>
        /\ (klass.meta.fields = NoneOpt /\ klass.meta.exclude = NoneOpt) =>
              /\ klass.result.outcome = "ImproperlyConfigured"
              /\ ~klass.result.synthesized
              /\ klass.result.base_fields = <<>>
        /\ (klass.meta.fields # NoneOpt \/ klass.meta.exclude # NoneOpt) =>
              klass.result.outcome # "ImproperlyConfigured"

C5_Witness ==
    /\ FormClass /\ klass.meta.model
    /\ klass.meta.fields = NoneOpt /\ klass.meta.exclude = NoneOpt
    /\ klass.declared = <<"extra", "title">>
    /\ klass.result.outcome = "ImproperlyConfigured"

\* The names Meta.fields requests that the model has no field for and the
\* form declares no field for.
Unknown ==
    {n \in Range(klass.meta.fields.names) :
        n \notin ModelFieldNames /\ n \notin Range(klass.declared)}

\* C6 as stated: defining a form class raises FieldError if a name in
\* Meta.fields has no field on the model and no declared form field; the
\* error names every such name, and no class is produced.
C6_Original ==
    (FormClass /\ klass.meta.model /\ klass.meta.fields.kind = "list" /\ Unknown # {}) =>
        /\ klass.result.outcome = "FieldError"
        /\ Unknown \subseteq klass.result.missing

(***************************** claims: fields_for_model ********************)
Called == ffm.op = "fields_for_model"

\* The place of name n in sequence s: its first occurrence.
First(s, n) == CHOOSE i \in 1..Len(s) : s[i] = n /\ \A j \in 1..(i-1) : s[j] # n

ModelFieldOrder == [i \in 1..Len(ModelFields) |-> ModelFields[i].name]

\* The keys are pairwise distinct and in the order of sequence s.
InOrderOf(keys, s) ==
    /\ Range(keys) \subseteq Range(s)
    /\ \A i, j \in 1..Len(keys) : i < j => First(s, keys[i]) < First(s, keys[j])

\* C8: with a non-empty 'fields' list, the keys of fields_for_model's result
\* are exactly the names of 'fields' not in 'exclude', in the order of
\* 'fields'; a name in 'exclude' is never a key; with no 'fields' list the
\* keys follow the model's field order.
C8_FieldOrder ==
    Called =>
        LET keys == Keys(ffm.result)
        IN /\ Range(keys) \cap Range(ffm.exclude.names) = {}
           /\ (ffm.fields.kind = "list" /\ ffm.fields.names # <<>>) =>
                 /\ Range(keys) = Range(ffm.fields.names) \ Range(ffm.exclude.names)
                 /\ InOrderOf(keys, ffm.fields.names)
           /\ ffm.fields.kind = "None" =>
                 /\ Range(keys) =
                       ModelFieldNames \ ({"_version", "uuid", "id"} \cup Range(ffm.exclude.names))
                 /\ InOrderOf(keys, ModelFieldOrder)

C8_Witness ==
    /\ Called
    /\ ffm.fields = ListOpt(<<"rank", "title">>)
    /\ ffm.exclude = ListOpt(<<"extra">>)
    /\ Keys(ffm.result) = <<"rank", "title">>

(***************************** claims: schemas *****************************)
Looked == lookup.get.op = "get_schema"

NotFound == "ValueError: Schema does not exist"

\* C10: get_schema fails with the value error for a content type whose file
\* '<content_type>.avsc' is not in _schemas, and every content type that
\* list_content_types returned on the unchanged working tree names a file
\* that get_schema finds.
C10_SchemaLookup ==
    Looked =>
        /\ (lookup.get.content_type \o <<".", "a", "v", "s", "c">>) \notin files =>
              lookup.get.result = NotFound
        /\ (lookup.fresh /\ lookup.get.content_type \in lookup.listed) =>
              lookup.get.result # NotFound

C10_Witness ==
    /\ Looked /\ lookup.fresh
    /\ <<".", "a", "v", "s", "c">> \in files
    /\ <<".", "a", ".", "a", "v", "s", "c">> \in files
    /\ lookup.get.content_type = <<"a", ".", "a", "v", "s", "c">>
    /\ lookup.get.content_type \in lookup.listed
    /\ lookup.get.result = "schema"

====
